---- MODULE Spec2Model ----
(***************************************************************************)
(* Model of the generation-request orchestrator of the OG image generator: *)
(* the /generate and / endpoints (app/api/endpoints.py), their helpers     *)
(* (app/api/utils.py), the cache layer (app/services/cache.py) and the     *)
(* Celery task (app/tasks/screenshot.py).                                  *)
(*                                                                         *)
(* The clock counts units of 1/UnitsPerSecond second, so that a duration   *)
(* has a fractional part for int() to cut off.  Every request is a process *)
(* whose handler is cut into steps at the calls to the collaborators       *)
(* (cache, record store, broker, renderer/publisher); other requests, the  *)
(* worker and the clock interleave between the steps.                      *)
(***************************************************************************)
EXTENDS Integers, Sequences, FiniteSets, TLC

\* ---------------------------------------------------------------- bounds
MaxReqs == 2        \* requests handled in one behaviour
MaxEvents == 1      \* events of the environment in one behaviour: the
                    \* clock advances, a collaborator call fails (the
                    \* failure to record that failure comes with it), the
                    \* broker delivers a job again
UnitsPerSecond == 2 \* resolution of the clock: units in one second
MaxClock == 6       \* last instant of the clock where update_cache is
                    \* exercised on its own

\* ------------------------------------------------------ program constants
SCREENSHOT_DEFAULT_TTL == 24 * 3600
SecondsPerHour == 3600
max_wait_seconds == 60
poll_interval_seconds == 2
MaxErrorLen == 500
DefaultWidth == 1200
DefaultHeight == 630

\* ------------------------------------------------------------ value sets
Min(a, b) == IF a < b THEN a ELSE b
Max(a, b) == IF a > b THEN a ELSE b

\* Python None for the optional ttl query parameter
NoTtl == -1
\* ttl is given in hours
Ttls == {NoTtl, 1}

\* timedelta(seconds=n), in units of the clock
Seconds(n) == n * UnitsPerSecond

\* int(delta.total_seconds()): the whole seconds of a duration, cut off
\* towards zero
IntSeconds(delta) ==
    IF delta >= 0 THEN delta \div UnitsPerSecond
    ELSE -((-delta) \div UnitsPerSecond)

\* the amounts by which the clock advances between two steps
TickSteps ==
    {Seconds(poll_interval_seconds), Seconds(SecondsPerHour),
     Seconds(SecondsPerHour) + 1}

\* A URL is its scheme and its netloc, the netloc a sequence of characters.
AllowedDomain == <<"a", ".", "c">>
GoodUrl == [scheme |-> "https", netloc |-> <<"a", ".", "c">>]
EvilUrl == [scheme |-> "https", netloc |-> <<"e", ".", "c">>]
Urls == {GoodUrl, EvilUrl}
Widths == {DefaultWidth}
Heights == {DefaultHeight}

\* settings.ALLOWED_SCREENSHOT_DOMAINS: None (here <<>>) or a list of
\* lower-cased domains
AllowLists == {<<>>, <<AllowedDomain>>}

\* Screenshot.s3_path: None, or the object URL built from the record id
NoUrl == <<>>
\* Screenshot.error_message and exception messages: a text and its length;
\* None has no length
NoneMsg == [text |-> "None", len |-> -1]
\* what str(exc) can be for a failing Renderer or Publisher
RenderErrors ==
    { [text |-> "render", len |-> 40],
      [text |-> "render", len |-> 600],
      [text |-> "", len |-> 0] }
DbError == [text |-> "db", len |-> 30]
QueueFailMsg == [text |-> "Failed to queue task", len |-> 20]
NoRecord == 0

VARIABLES
    now,            \* the wall clock
    events,         \* events of the environment so far
    celeryEnabled,  \* settings.CELERY_ENABLED
    allowed,        \* settings.ALLOWED_SCREENSHOT_DOMAINS
    records,        \* the screenshots table: record id -> row
    cache,          \* Redis: cache key -> entry
    jobs,           \* the Celery jobs: record id -> message and progress
    reqs            \* the requests: request id -> handler state

vars == <<now, events, celeryEnabled, allowed, records, cache, jobs,
          reqs>>

\* ------------------------------------------------------- URL validation
Lower(ch) ==
    CASE ch = "A" -> "a"
      [] ch = "C" -> "c"
      [] ch = "E" -> "e"
      [] OTHER -> ch

LowerSeq(s) == [i \in 1..Len(s) |-> Lower(s[i])]

\* str.endswith
EndsWith(s, suffix) ==
    /\ Len(suffix) <= Len(s)
    /\ SubSeq(s, Len(s) - Len(suffix) + 1, Len(s)) = suffix

\* validate_domain without the allow-list test
validate_domain_NoAllowList(url, allowList) ==
    /\ url.scheme \in {"http", "https"}
    /\ LowerSeq(url.netloc) /= <<>>

\* validate_domain: TRUE when it returns, FALSE when it raises
\* DomainValidationError
validate_domain(url, allowList) ==
    LET domain == LowerSeq(url.netloc) IN
    /\ url.scheme \in {"http", "https"}
    /\ domain /= <<>>
    /\ \/ allowList = <<>>
       \/ \E i \in 1..Len(allowList) :
             \/ domain = allowList[i]
             \/ EndsWith(domain, <<".">> \o allowList[i])

\* ------------------------------------------------------------ the cache
\* cache_key = f"og_image:{url}:{request_width}:{request_height}"
CacheKey(url, width, height) == <<"og_image", url, width, height>>
CacheKeys == {CacheKey(u, w, h) : u \in Urls, w \in Widths, h \in Heights}

\* a key Redis does not hold
NoEntry == [value |-> [s3_url |-> NoUrl], exp |-> 0]

\* get_cache: the value under the key while it has not expired, else None
\* (None too when Redis fails: ok = FALSE)
get_cache(c, key, t, ok) ==
    IF ok /\ c[key] /= NoEntry /\ t < c[key].exp
    THEN c[key].value
    ELSE [s3_url |-> NoUrl]

\* check_cache that takes every cached value for a miss
check_cache_NeverHit(c, key, t, ok) == [s3_url |-> NoUrl]

\* check_cache: the cached dict when it holds an s3_url, else None
check_cache(c, key, t, ok) == get_cache(c, key, t, ok)

IsHit(cached) == cached.s3_url /= NoUrl

\* set_cache: SETEX key seconds value; a no-op when Redis fails
set_cache(c, key, value, expiration_seconds, t, ok) ==
    IF ok
    THEN [c EXCEPT ![key] =
            [value |-> value, exp |-> t + Seconds(expiration_seconds)]]
    ELSE c

\* update_cache that lets the entry live for the default TTL
update_cache_DefaultTtl(c, key, s3_url, expiry_time_utc, t, ok) ==
    IF Max(0, IntSeconds(expiry_time_utc - t)) > 0 /\ s3_url /= NoUrl
    THEN set_cache(c, key, [s3_url |-> s3_url], SCREENSHOT_DEFAULT_TTL, t, ok)
    ELSE c

\* update_cache without the test on the URL
update_cache_NoUrlTest(c, key, s3_url, expiry_time_utc, t, ok) ==
    LET cache_ttl == Max(0, IntSeconds(expiry_time_utc - t)) IN
    IF cache_ttl > 0
    THEN set_cache(c, key, [s3_url |-> s3_url], cache_ttl, t, ok)
    ELSE c

\* update_cache without the test on the TTL and the URL
update_cache_Unguarded(c, key, s3_url, expiry_time_utc, t, ok) ==
    set_cache(c, key, [s3_url |-> s3_url],
              Max(0, IntSeconds(expiry_time_utc - t)), t, ok)

\* update_cache: writes only a non-empty URL with a positive TTL
update_cache(c, key, s3_url, expiry_time_utc, t, ok) ==
    LET cache_ttl == Max(0, IntSeconds(expiry_time_utc - t)) IN
    IF cache_ttl > 0 /\ s3_url /= NoUrl
    THEN set_cache(c, key, [s3_url |-> s3_url], cache_ttl, t, ok)
    ELSE c

\* ----------------------------------------------------- the record store
\* upload_to_s3: the object URL of og_images/<record id>.png
S3Url(record_id) == <<"og_images", record_id>>

\* str(error_message)[:500]
Truncate(msg) == [msg EXCEPT !.len = Min(@, MaxErrorLen)]

\* find_existing_record: the rows of the url with the latest created_at
\* (ORDER BY created_at DESC LIMIT 1 returns any one of them)
LatestRecords(recs, url) ==
    { i \in DOMAIN recs :
        /\ recs[i].url = url
        /\ \A j \in DOMAIN recs :
              recs[j].url = url => recs[j].created_at <= recs[i].created_at }

\* create_db_record: a new pending row; created_at is the server's now()
NewRecord(url, expires_at, t) ==
    [url |-> url, status |-> "pending", s3_path |-> NoUrl,
     error_message |-> NoneMsg, created_at |-> t, expires_at |-> expires_at]

\* create_db_record that leaves the row behind when the commit fails
create_db_record_NoRollback(recs, url, expires_at, t, dbOk) ==
    Append(recs, NewRecord(url, expires_at, t))

\* create_db_record that adds no row for a URL that has a row in flight
create_db_record_OnePerUrl(recs, url, expires_at, t, dbOk) ==
    IF dbOk /\ \A id \in DOMAIN recs :
                  recs[id].url = url => recs[id].status \in {"completed",
                                                             "failed"}
    THEN Append(recs, NewRecord(url, expires_at, t))
    ELSE recs

\* create_db_record: the table with the new row, or, the commit failing
\* (dbOk = FALSE), rolled back
create_db_record(recs, url, expires_at, t, dbOk) ==
    IF dbOk THEN Append(recs, NewRecord(url, expires_at, t)) ELSE recs

\* _update_db_status that does not store the s3_path
update_db_status_NoArtifact(recs, record_id, status, s3_path, error_message) ==
    IF record_id \in DOMAIN recs
    THEN [recs EXCEPT ![record_id] =
            [@ EXCEPT
               !.status = status,
               !.error_message =
                   IF status = "completed" THEN NoneMsg
                   ELSE IF status = "failed" THEN Truncate(error_message)
                   ELSE @]]
    ELSE recs

\* _update_db_status, when the query and the commit succeed
update_db_status(recs, record_id, status, s3_path, error_message) ==
    IF record_id \in DOMAIN recs
    THEN [recs EXCEPT ![record_id] =
            [@ EXCEPT
               !.status = status,
               !.s3_path = IF status = "completed" THEN s3_path ELSE @,
               !.error_message =
                   IF status = "completed" THEN NoneMsg
                   ELSE IF status = "failed" THEN Truncate(error_message)
                   ELSE @]]
    ELSE recs

\* ttl_seconds and future_expiry_time
TtlSeconds(ttl) ==
    IF ttl /= NoTtl THEN ttl * SecondsPerHour ELSE SCREENSHOT_DEFAULT_TTL

\* IsFresh without the test on expires_at
IsFresh_NoExpiry(rec, now_utc) == rec.status = "completed"

\* IsInFlight that forgets the pending rows
IsInFlight_OnlyProcessing(rec, now_utc) ==
    rec.status = "processing" /\ rec.expires_at > now_utc

\* the freshness tests of the handlers, on the row as it was read
IsFresh(rec, now_utc) ==
    rec.status = "completed" /\ rec.expires_at > now_utc

IsInFlight(rec, now_utc) ==
    rec.status \in {"pending", "processing"} /\ rec.expires_at > now_utc

\* ------------------------------------------------------------- requests
ReqIds == 1..MaxReqs
Endpoints == {"generate", "root"}

NoResp ==
    [kind |-> "none", code |-> 0, image_url |-> NoUrl, task_id |-> NoRecord,
     detail |-> NoneMsg]

\* pydantic's ValidationError for a field that is not the declared Literal
ValidationErrorMsg == [text |-> "validation error", len |-> 120]

\* an exception raised while the answer is built
Raised(detail) ==
    [kind |-> "raised", code |-> 0, image_url |-> NoUrl,
     task_id |-> NoRecord, detail |-> detail]

\* CachedResponse of /generate: status is declared Literal["cached"], and
\* the route's default status code is 202
CachedResponse(status, image_url) ==
    IF status = "cached"
    THEN [kind |-> "cached", code |-> 202, image_url |-> image_url,
          task_id |-> NoRecord, detail |-> NoneMsg]
    ELSE Raised(ValidationErrorMsg)

\* ProcessingResponse that does not carry the id of the record
ProcessingResponse_NoId(task_id) ==
    [kind |-> "processing", code |-> 202, image_url |-> NoUrl,
     task_id |-> NoRecord, detail |-> NoneMsg]

\* ProcessingResponse of /generate
ProcessingResponse(task_id) ==
    [kind |-> "processing", code |-> 202, image_url |-> NoUrl,
     task_id |-> task_id, detail |-> NoneMsg]

\* RedirectResponse of /
RedirectResponse(image_url) ==
    [kind |-> "redirect", code |-> 307, image_url |-> image_url,
     task_id |-> NoRecord, detail |-> NoneMsg]

\* create_error_response of /generate, HTMLResponse with an error of /
ErrorResponse(code, detail) ==
    [kind |-> "error", code |-> code, image_url |-> NoUrl,
     task_id |-> NoRecord, detail |-> detail]

\* an exception that leaves the handler uncaught
Unhandled(detail) ==
    [kind |-> "unhandled", code |-> 500, image_url |-> NoUrl,
     task_id |-> NoRecord, detail |-> detail]

\* the answer with an image URL that either endpoint builds
Ready(ep, status, image_url) ==
    IF ep = "generate" THEN CachedResponse(status, image_url)
    ELSE RedirectResponse(image_url)

\* an answer built outside every try block
Uncaught(resp) ==
    IF resp.kind = "raised" THEN Unhandled(resp.detail) ELSE resp

NoSeen == [id |-> NoRecord, status |-> "none", s3_path |-> NoUrl,
           expires_at |-> 0]

\* a record for which no job was sent
NoJob ==
    [record_id |-> NoRecord, url |-> GoodUrl, width |-> DefaultWidth,
     height |-> DefaultHeight, pc |-> "none", attempts |-> 0]

IdleReq ==
    [pc |-> "idle", ep |-> "generate", url |-> GoodUrl, ttl |-> NoTtl,
     width |-> DefaultWidth, height |-> DefaultHeight, force |-> FALSE,
     now_utc |-> 0, expiry |-> 0, seen |-> NoSeen, new_id |-> NoRecord,
     poll_id |-> NoRecord, start_time |-> 0, wake |-> 0, s3_url |-> NoUrl,
     poll_db |-> FALSE, task_id |-> NoRecord, touched |-> {},
     resp |-> NoResp]

KeyOf(q) == CacheKey(q.url, q.width, q.height)

\* a collaborator call works (ok) or, within the budget, fails
Outcome(ok) == ok \/ events < MaxEvents

\* what a request notes of a call to the cache: that it made it, and that
\* Redis failed
CacheCall(ok) == IF ok THEN {"cache"} ELSE {"cache", "cache_failed"}

Init ==
    /\ now = 0
    /\ events = 0
    /\ celeryEnabled \in BOOLEAN
    /\ allowed \in AllowLists
    /\ records = <<>>
    /\ cache = [k \in CacheKeys |-> NoEntry]
    /\ jobs = <<>>
    /\ reqs = [r \in ReqIds |-> IdleReq]

\* the clock advances
Tick ==
    /\ events < MaxEvents
    /\ \E d \in TickSteps : now' = now + d
    /\ events' = events + 1
    /\ UNCHANGED <<celeryEnabled, allowed, records, cache, jobs, reqs>>

\* The head of generate_og_image and root_handler: domain validation, the
\* expiry time and the cache check.
StartWith(r, widths) ==
    /\ reqs[r].pc = "idle"
    /\ r > 1 => reqs[r - 1].pc /= "idle"
    /\ \E ep \in Endpoints, url \in Urls, ttl \in Ttls, width \in widths,
          height \in Heights, force \in BOOLEAN, ok \in BOOLEAN :
         LET q == [reqs[r] EXCEPT !.ep = ep, !.url = url, !.ttl = ttl,
                      !.width = width, !.height = height, !.force = force,
                      !.now_utc = now,
                      !.expiry = now + Seconds(TtlSeconds(ttl))]
             cached == check_cache(cache, KeyOf(q), now, ok)
         IN
         IF ~validate_domain(url, allowed)
         THEN /\ ok
              /\ reqs' = [reqs EXCEPT ![r] =
                    [q EXCEPT !.pc = "done",
                              !.resp = ErrorResponse(400, NoneMsg)]]
              /\ UNCHANGED events
         ELSE IF force
         THEN /\ ok
              /\ reqs' = [reqs EXCEPT ![r] =
                    [q EXCEPT !.pc = IF ep = "generate" THEN "lookup"
                                     ELSE "create"]]
              /\ UNCHANGED events
         ELSE /\ Outcome(ok)
              /\ events' = IF ok THEN events ELSE events + 1
              /\ reqs' = [reqs EXCEPT ![r] =
                    IF IsHit(cached)
                    THEN [q EXCEPT !.pc = "done", !.touched = CacheCall(ok),
                                   !.resp = Uncaught(Ready(ep, "cached",
                                                           cached.s3_url))]
                    ELSE [q EXCEPT !.pc = "lookup",
                                   !.touched = CacheCall(ok)]]
    /\ UNCHANGED <<now, celeryEnabled, allowed, records, cache, jobs>>

Start(r) == StartWith(r, Widths)

\* the row found by find_existing_record, as the handler holds it
Snapshot(id) ==
    IF id = NoRecord THEN NoSeen
    ELSE [id |-> id, status |-> records[id].status,
          s3_path |-> records[id].s3_path,
          expires_at |-> records[id].expires_at]

\* Decide taking no notice of force_refresh
Decide_ForceIgnored(ep, force, seen, now_utc, celery) ==
    IF seen.id = NoRecord THEN "create"
    ELSE IF IsFresh(seen, now_utc)
    THEN IF seen.s3_path /= NoUrl THEN "hit"
         ELSE IF ep = "generate" THEN "create" ELSE "stuck"
    ELSE IF IsInFlight(seen, now_utc)
    THEN IF ep = "generate" \/ celery THEN "wait" ELSE "create"
    ELSE "create"

\* Decide with generate_og_image treating a row in flight as root_handler
\* does
Decide_InlineRegenerates(ep, force, seen, now_utc, celery) ==
    IF seen.id = NoRecord \/ force THEN "create"
    ELSE IF IsFresh(seen, now_utc)
    THEN IF seen.s3_path /= NoUrl THEN "hit"
         ELSE IF ep = "generate" THEN "create" ELSE "stuck"
    ELSE IF IsInFlight(seen, now_utc)
    THEN IF celery THEN "wait" ELSE "create"
    ELSE "create"

\* what a handler does with the row it found:
\*   "hit"     serve the completed row,    "wait"  answer with / poll the
\*   "create"  create a new row,                   row in flight,
\*   "stuck"   root_handler only: a completed row without s3_path
Decide(ep, force, seen, now_utc, celery) ==
    IF seen.id = NoRecord \/ force THEN "create"
    ELSE IF IsFresh(seen, now_utc)
    THEN IF seen.s3_path /= NoUrl THEN "hit"
         ELSE IF ep = "generate" THEN "create" ELSE "stuck"
    ELSE IF IsInFlight(seen, now_utc)
    THEN IF ep = "generate" \/ celery THEN "wait" ELSE "create"
    ELSE "create"

\* The database check of generate_og_image and root_handler:
\* find_existing_record and the branch on the row found.
Lookup(r) ==
    LET q == reqs[r]
        found == LatestRecords(records, q.url)
    IN
    /\ q.pc = "lookup"
    /\ \E dbOk \in BOOLEAN, cacheOk \in BOOLEAN,
          id \in (IF found = {} THEN {NoRecord} ELSE found) :
         LET seen == Snapshot(id)
             d == Decide(q.ep, q.force, seen, q.now_utc, celeryEnabled)
             q1 == [q EXCEPT !.seen = seen, !.touched = @ \cup {"db"}]
         IN
         IF ~dbOk
         THEN \* the query raises outside every try block
              /\ cacheOk
              /\ events < MaxEvents
              /\ events' = events + 1
              /\ reqs' = [reqs EXCEPT ![r] =
                    [q EXCEPT !.pc = "done", !.touched = @ \cup {"db"},
                              !.resp = Unhandled(DbError)]]
              /\ UNCHANGED cache
         ELSE IF d = "hit"
         THEN /\ Outcome(cacheOk)
              /\ events' = IF cacheOk THEN events ELSE events + 1
              /\ cache' = update_cache(cache, KeyOf(q), seen.s3_path,
                                       seen.expires_at, now, cacheOk)
              /\ reqs' = [reqs EXCEPT ![r] =
                    [q1 EXCEPT !.pc = "done",
                               !.touched = @ \cup CacheCall(cacheOk),
                               !.resp = Uncaught(Ready(q.ep, "cached",
                                                       seen.s3_path))]]
         ELSE /\ cacheOk
              /\ UNCHANGED <<events, cache>>
              /\ reqs' = [reqs EXCEPT ![r] =
                    CASE d = "create" -> [q1 EXCEPT !.pc = "create"]
                      [] d = "wait" /\ q.ep = "generate" ->
                            [q1 EXCEPT !.pc = "done",
                                       !.resp = ProcessingResponse(seen.id)]
                      [] d = "wait" /\ q.ep = "root" ->
                            [q1 EXCEPT !.pc = "poll", !.poll_id = seen.id,
                                       !.start_time = now]
                      [] OTHER ->
                            [q1 EXCEPT !.pc = "done",
                                       !.resp = ErrorResponse(500, NoneMsg)]]
    /\ UNCHANGED <<now, celeryEnabled, allowed, records, jobs>>

\* create_db_record and the handlers' reaction to its failure
Create(r) ==
    LET q == reqs[r] IN
    /\ q.pc = "create"
    /\ \E dbOk \in BOOLEAN :
         /\ Outcome(dbOk)
         /\ events' = IF dbOk THEN events ELSE events + 1
         /\ records' = create_db_record(records, q.url, q.expiry, now, dbOk)
         /\ jobs' = IF Len(records') > Len(jobs) THEN Append(jobs, NoJob)
                    ELSE jobs
         /\ IF dbOk
            THEN /\ reqs' = [reqs EXCEPT ![r] =
                       [q EXCEPT !.pc = "dispatch",
                                 !.new_id = Len(records) + 1,
                                 !.touched = @ \cup {"db"}]]
            ELSE /\ reqs' = [reqs EXCEPT ![r] =
                       [q EXCEPT !.pc = "done", !.touched = @ \cup {"db"},
                                 !.resp = ErrorResponse(500, DbError)]]
    /\ UNCHANGED <<now, celeryEnabled, allowed, cache>>

\* the job of generate_screenshot_task.delay: its message, where it stands
\* and how often the broker has delivered it
JobOf(q) ==
    [record_id |-> q.new_id, url |-> q.url, width |-> q.width,
     height |-> q.height, pc |-> "queued", attempts |-> 0]

\* an except block that does not record the failure
RecordFailure_NotRecorded(recs, record_id, exc, dbOk) == recs

\* the except blocks that record a failure: _update_db_status(FAILED, str(exc)),
\* whose own failure is only logged
RecordFailure(recs, record_id, exc, dbOk) ==
    IF dbOk THEN update_db_status(recs, record_id, "failed", NoUrl, exc)
    ELSE recs

\* how the handlers answer an exception raised in their last try block
GenerationFailed(ep, exc) ==
    IF ep = "generate" THEN ErrorResponse(500, exc)
    ELSE ErrorResponse(500, NoneMsg)

\* an answer built inside that try block
Caught(ep, resp) ==
    IF resp.kind = "raised" THEN GenerationFailed(ep, resp.detail) ELSE resp

\* dispatch_celery_task and the handlers' answer (deferred strategy)
DispatchCelery(r) ==
    LET q == reqs[r] IN
    /\ q.pc = "dispatch"
    /\ celeryEnabled
    /\ \E sent \in BOOLEAN, dbOk \in BOOLEAN :
         /\ Outcome(sent)
         /\ sent => dbOk
         /\ events' = IF sent THEN events ELSE events + 1
         /\ IF sent
            THEN /\ jobs' = [jobs EXCEPT ![q.new_id] = JobOf(q)]
                 /\ UNCHANGED records
                 /\ reqs' = [reqs EXCEPT ![r] =
                       IF q.ep = "generate"
                       THEN [q EXCEPT !.pc = "done",
                                      !.touched = @ \cup {"dispatch"},
                                      !.resp = ProcessingResponse(q.new_id)]
                       ELSE [q EXCEPT !.pc = "poll", !.poll_id = q.new_id,
                                      !.touched = @ \cup {"dispatch"},
                                      !.start_time = now]]
            ELSE /\ UNCHANGED jobs
                 /\ records' = RecordFailure(records, q.new_id, QueueFailMsg,
                                             dbOk)
                 /\ reqs' = [reqs EXCEPT ![r] =
                       [q EXCEPT !.pc = "done",
                                 !.touched = @ \cup {"dispatch"},
                                 !.resp = ErrorResponse(500, QueueFailMsg)]]
    /\ UNCHANGED <<now, celeryEnabled, allowed, cache>>

\* run_sync_generation, step 1: mark the record as processing
SyncMarkProcessing(r) ==
    LET q == reqs[r] IN
    /\ q.pc = "dispatch"
    /\ ~celeryEnabled
    /\ \E dbOk \in BOOLEAN, failOk \in BOOLEAN :
         /\ Outcome(dbOk)
         /\ dbOk => failOk
         /\ events' = IF dbOk THEN events ELSE events + 1
         /\ IF dbOk
            THEN /\ records' = update_db_status(records, q.new_id,
                                                "processing", NoUrl, NoneMsg)
                 /\ reqs' = [reqs EXCEPT ![r] =
                       [q EXCEPT !.pc = "perform",
                                 !.touched = @ \cup {"dispatch"}]]
            ELSE /\ records' = RecordFailure(records, q.new_id, DbError,
                                             failOk)
                 /\ reqs' = [reqs EXCEPT ![r] =
                       [q EXCEPT !.pc = "done",
                                 !.touched = @ \cup {"dispatch"},
                                 !.resp = GenerationFailed(q.ep, DbError)]]
    /\ UNCHANGED <<now, celeryEnabled, allowed, cache, jobs>>

\* run_sync_generation, steps 2 and 3: _perform_screenshot_and_upload, then
\* mark the record as completed; the except block on a failure of either
SyncPerform(r) ==
    LET q == reqs[r] IN
    /\ q.pc = "perform"
    /\ \E rendered \in BOOLEAN, exc \in RenderErrors, dbOk \in BOOLEAN,
          failOk \in BOOLEAN :
         LET good == rendered /\ dbOk
             error == IF rendered THEN DbError ELSE exc
         IN
         /\ Outcome(good)
         /\ ~rendered => dbOk
         /\ good => failOk
         /\ rendered => exc = CHOOSE e \in RenderErrors : TRUE
         /\ events' = IF good THEN events ELSE events + 1
         /\ IF good
            THEN /\ records' = update_db_status(records, q.new_id,
                                   "completed", S3Url(q.new_id), NoneMsg)
                 /\ reqs' = [reqs EXCEPT ![r] =
                       [q EXCEPT !.pc = "cacheupd",
                                 !.s3_url = S3Url(q.new_id),
                                 !.touched = @ \cup {"renderer"}]]
            ELSE /\ records' = RecordFailure(records, q.new_id, error,
                                             failOk)
                 /\ reqs' = [reqs EXCEPT ![r] =
                       [q EXCEPT !.pc = "done",
                                 !.touched = @ \cup {"renderer"} \cup
                                     (IF rendered THEN {}
                                      ELSE {"render_failed"}) \cup
                                     (IF failOk THEN {} ELSE {"unrecorded"}),
                                 !.resp = GenerationFailed(q.ep, error)]]
    /\ UNCHANGED <<now, celeryEnabled, allowed, cache, jobs>>

\* run_sync_generation, step 4: update the cache and return the URL
SyncUpdateCache(r) ==
    LET q == reqs[r] IN
    /\ q.pc = "cacheupd"
    /\ \E cacheOk \in BOOLEAN :
         /\ Outcome(cacheOk)
         /\ events' = IF cacheOk THEN events ELSE events + 1
         /\ cache' = update_cache(cache, KeyOf(q), q.s3_url, q.expiry, now,
                                  cacheOk)
         /\ reqs' = [reqs EXCEPT ![r] =
               [q EXCEPT !.pc = "done",
                         !.touched = @ \cup CacheCall(cacheOk),
                         !.resp = Caught(q.ep, Ready(q.ep, "generated",
                                                     q.s3_url))]]
    /\ UNCHANGED <<now, celeryEnabled, allowed, records, jobs>>

\* the detail of the HTTPException of a failed task:
\* current_record.error_message or 'Unknown error'
UnknownError == [text |-> "Unknown error", len |-> 13]
FailureDetail_Generic(error_message) == UnknownError
FailureDetail(error_message) ==
    IF error_message = NoneMsg \/ error_message.len = 0 THEN UnknownError
    ELSE error_message
TimeoutMsg == [text |-> "Image generation timed out", len |-> 26]

\* poll_task_completion: the loop test, time.time() - start_time <
\* max_wait_seconds, has become false
PollExpired_NoDeadline(start_time, t) == FALSE
PollExpired(start_time, t) == ~(t - start_time < Seconds(max_wait_seconds))

\* poll_task_completion after the loop: the timeout is raised and nothing is
\* written to the record of the task, and nothing is sent to the worker
GiveUp_MarksFailed(recs, record_id) ==
    update_db_status(recs, record_id, "failed", NoUrl, TimeoutMsg)
GiveUp(recs, record_id) == recs

\* the end of the block "with database.SessionLocal() as poll_db": the
\* session of the poll is closed, whether the query returned or raised
WithExit_KeepsOpen(poll_db) == poll_db
WithExit(poll_db) == FALSE

\* poll_task_completion: the loop test; when it passes, the session of this
\* poll is opened
PollOpen(r) ==
    LET q == reqs[r] IN
    /\ q.pc = "poll"
    /\ IF PollExpired(q.start_time, now)
       THEN /\ reqs' = [reqs EXCEPT ![r] =
                  [q EXCEPT !.pc = "done",
                            !.resp = ErrorResponse(504, TimeoutMsg)]]
            /\ records' = GiveUp(records, q.poll_id)
       ELSE /\ reqs' = [reqs EXCEPT ![r] =
                  [q EXCEPT !.pc = "query", !.poll_db = TRUE]]
            /\ UNCHANGED records
    /\ UNCHANGED <<now, events, celeryEnabled, allowed, cache, jobs>>

\* poll_task_completion: one poll of the record: the query in the session of
\* the poll, the end of the "with" block, and the branch on what was read
PollCheck(r) ==
    LET q == reqs[r]
        current_record == records[q.poll_id]
    IN
    /\ q.pc = "query"
    /\ \E dbOk \in BOOLEAN, cacheOk \in BOOLEAN :
         IF ~dbOk
         THEN /\ cacheOk
              /\ events < MaxEvents
              /\ events' = events + 1
              /\ reqs' = [reqs EXCEPT ![r] =
                    [q EXCEPT !.pc = "done",
                              !.poll_db = WithExit(@),
                              !.resp = ErrorResponse(500, NoneMsg)]]
              /\ UNCHANGED cache
         ELSE IF current_record.status = "completed"
         THEN /\ Outcome(cacheOk)
              /\ current_record.s3_path = NoUrl => cacheOk
              /\ events' = IF cacheOk THEN events ELSE events + 1
              /\ cache' = IF current_record.s3_path /= NoUrl
                          THEN update_cache(cache, KeyOf(q),
                                            current_record.s3_path,
                                            current_record.expires_at, now,
                                            cacheOk)
                          ELSE cache
              /\ reqs' = [reqs EXCEPT ![r] =
                    [q EXCEPT !.pc = "done",
                              !.poll_db = WithExit(@),
                              !.touched = @ \cup CacheCall(cacheOk),
                              !.resp = RedirectResponse(
                                           current_record.s3_path)]]
         ELSE IF current_record.status = "failed"
         THEN /\ cacheOk
              /\ reqs' = [reqs EXCEPT ![r] =
                    [q EXCEPT !.pc = "done",
                              !.poll_db = WithExit(@),
                              !.resp = ErrorResponse(500,
                                 FailureDetail(current_record.error_message))]]
              /\ UNCHANGED <<events, cache>>
         ELSE /\ cacheOk
              /\ reqs' = [reqs EXCEPT ![r] =
                    [q EXCEPT !.pc = "sleep",
                              !.poll_db = WithExit(@),
                              !.wake = now + Seconds(poll_interval_seconds)]]
              /\ UNCHANGED <<events, cache>>
    /\ UNCHANGED <<now, celeryEnabled, allowed, records, jobs>>

\* poll_task_completion: asyncio.sleep(poll_interval_seconds) returns
PollWake(r) ==
    /\ reqs[r].pc = "sleep"
    /\ now >= reqs[r].wake
    /\ reqs' = [reqs EXCEPT ![r].pc = "poll"]
    /\ UNCHANGED <<now, events, celeryEnabled, allowed, records, cache,
                   jobs>>

\* ------------------------------------------------------------ the worker
\* One execution of a job is active at a time; the broker may deliver a job
\* again after a worker took it (the worker restarted before it acknowledged
\* the message).

\* generate_screenshot_task, first part: a worker takes the job and marks
\* the record as processing
TaskStart(id) ==
    LET job == jobs[id] IN
    /\ job.pc = "queued"
    /\ \E dbOk \in BOOLEAN :
        /\ Outcome(dbOk)
        /\ events' = IF dbOk THEN events ELSE events + 1
        /\ IF dbOk
           THEN /\ records' = update_db_status(records, job.record_id,
                                               "processing", NoUrl, NoneMsg)
                /\ jobs' = [jobs EXCEPT ![id] =
                      [job EXCEPT !.attempts = @ + 1,
                                  !.pc = IF job.record_id \in DOMAIN records
                                         THEN "running" ELSE "done"]]
           ELSE /\ UNCHANGED records
                /\ jobs' = [jobs EXCEPT ![id] =
                      [job EXCEPT !.attempts = @ + 1, !.pc = "done"]]
    /\ UNCHANGED <<now, celeryEnabled, allowed, cache, reqs>>

\* generate_screenshot_task, second part: _perform_screenshot_and_upload,
\* then mark the record as completed; the except block on a failure
TaskPerform(id) ==
    LET job == jobs[id] IN
    /\ job.pc = "running"
    /\ \E rendered \in BOOLEAN, exc \in RenderErrors, dbOk \in BOOLEAN,
          failOk \in BOOLEAN :
         LET good == rendered /\ dbOk
             error == IF rendered THEN DbError ELSE exc
         IN
         /\ Outcome(good)
         /\ ~rendered => dbOk
         /\ good => failOk
         /\ rendered => exc = CHOOSE x \in RenderErrors : TRUE
         /\ events' = IF good THEN events ELSE events + 1
         /\ records' =
               IF good
               THEN update_db_status(records, job.record_id, "completed",
                                     S3Url(job.record_id), NoneMsg)
               ELSE RecordFailure(records, job.record_id, error, failOk)
         /\ jobs' = [jobs EXCEPT ![id].pc = "done"]
    /\ UNCHANGED <<now, celeryEnabled, allowed, cache, reqs>>

\* the broker delivers again a job whose execution has ended
Redeliver(id) ==
    /\ jobs[id].pc = "done"
    /\ events < MaxEvents
    /\ events' = events + 1
    /\ jobs' = [jobs EXCEPT ![id].pc = "queued"]
    /\ UNCHANGED <<now, celeryEnabled, allowed, records, cache, reqs>>

\* -------------------------------------------------------- specification
Next ==
    \/ Tick
    \/ \E r \in ReqIds : Start(r)
    \/ \E r \in ReqIds : Lookup(r)
    \/ \E r \in ReqIds : Create(r)
    \/ \E r \in ReqIds : DispatchCelery(r)
    \/ \E r \in ReqIds : SyncMarkProcessing(r)
    \/ \E r \in ReqIds : SyncPerform(r)
    \/ \E r \in ReqIds : SyncUpdateCache(r)
    \/ \E r \in ReqIds : PollOpen(r)
    \/ \E r \in ReqIds : PollCheck(r)
    \/ \E r \in ReqIds : PollWake(r)
    \/ \E id \in DOMAIN jobs : TaskStart(id)
    \/ \E id \in DOMAIN jobs : TaskPerform(id)
    \/ \E id \in DOMAIN jobs : Redeliver(id)

Spec == Init /\ [][Next]_vars

\* ------------------------------------------ update_cache on its own
\* update_cache as a function of its arguments, the clock and Redis: the
\* callers r = 1, 2, ... call it one after the other, each with a key, a
\* URL (possibly empty) and an expiry time of its choice, while the clock
\* advances.  The caller keeps its arguments and the time of the call.
ExpiryTimes == 0..(MaxClock + UnitsPerSecond)

PopulateInit ==
    /\ now = 0
    /\ events = 0
    /\ celeryEnabled = FALSE
    /\ allowed = <<>>
    /\ records = <<>>
    /\ cache = [k \in CacheKeys |-> NoEntry]
    /\ jobs = <<>>
    /\ reqs = [r \in ReqIds |-> IdleReq]

Elapse ==
    /\ now < MaxClock
    /\ now' = now + 1
    /\ UNCHANGED <<events, celeryEnabled, allowed, records, cache, jobs,
                   reqs>>

Populate(r) ==
    /\ reqs[r].pc = "idle"
    /\ r > 1 => reqs[r - 1].pc /= "idle"
    /\ \E url \in Urls, s3_url \in {NoUrl, S3Url(1)},
          expiry_time_utc \in ExpiryTimes, ok \in BOOLEAN :
         LET q == [IdleReq EXCEPT !.pc = "done", !.url = url,
                                  !.s3_url = s3_url,
                                  !.expiry = expiry_time_utc,
                                  !.now_utc = now,
                                  !.touched = CacheCall(ok)]
         IN
         /\ Outcome(ok)
         /\ events' = IF ok THEN events ELSE events + 1
         /\ cache' = update_cache(cache, KeyOf(q), s3_url, expiry_time_utc,
                                  now, ok)
         /\ reqs' = [reqs EXCEPT ![r] = q]
    /\ UNCHANGED <<now, celeryEnabled, allowed, records, jobs>>

PopulateNext ==
    \/ Elapse
    \/ \E r \in ReqIds : Populate(r)

PopulateSpec == PopulateInit /\ [][PopulateNext]_vars

\* ------------------------------- poll_task_completion on its own
\* root_handler has created record 1, sent its job and called
\* poll_task_completion at time 0; the worker never finishes the job, so the
\* record stays as it is (the job waits in the queue, or a worker took it
\* and hangs) while the clock runs to MaxPollClock, PollSlack seconds after
\* the deadline of the poller.
PollSlack == 4
MaxPollClock == Seconds(max_wait_seconds + PollSlack)

\* the request of root_handler when it enters poll_task_completion
PollRequest ==
    [IdleReq EXCEPT !.pc = "poll", !.ep = "root",
                    !.expiry = Seconds(TtlSeconds(NoTtl)),
                    !.new_id = 1, !.poll_id = 1, !.start_time = 0,
                    !.touched = {"cache", "db", "dispatch"}]

\* the record of the task and its job, as the worker left them
PollRecord(taken) ==
    [NewRecord(GoodUrl, PollRequest.expiry, 0) EXCEPT
        !.status = IF taken THEN "processing" ELSE "pending"]
PollJob(taken) ==
    [JobOf(PollRequest) EXCEPT !.pc = IF taken THEN "running" ELSE "queued",
                               !.attempts = IF taken THEN 1 ELSE 0]

PollInit ==
    /\ now = 0
    /\ events = 0
    /\ celeryEnabled = TRUE
    /\ allowed \in AllowLists
    /\ \E taken \in BOOLEAN :
         /\ records = <<PollRecord(taken)>>
         /\ jobs = <<PollJob(taken)>>
    /\ cache = [k \in CacheKeys |-> NoEntry]
    /\ reqs = [r \in ReqIds |-> IF r = 1 THEN PollRequest ELSE IdleReq]

\* time passes, up to MaxPollClock and as long as a poller sleeps
PollTick ==
    /\ \/ now < MaxPollClock
       \/ \E r \in ReqIds : reqs[r].pc = "sleep" /\ now < reqs[r].wake
    /\ now' = now + 1
    /\ UNCHANGED <<events, celeryEnabled, allowed, records, cache, jobs,
                   reqs>>

PollNext ==
    \/ PollTick
    \/ \E r \in ReqIds : PollOpen(r)
    \/ \E r \in ReqIds : PollCheck(r)
    \/ \E r \in ReqIds : PollWake(r)

\* the event loop runs the coroutine whenever it can continue, and time
\* passes
PollSpec ==
    /\ PollInit
    /\ [][PollNext]_vars
    /\ WF_vars(PollTick)
    /\ \A r \in ReqIds : /\ WF_vars(PollOpen(r))
                         /\ WF_vars(PollCheck(r))
                         /\ WF_vars(PollWake(r))

\* ------------------------------------ /status/{task_id}, /image/{image_id}
\* StatusResponse of /status/{task_id}; image_url and error_message are
\* None (NoUrl, NoneMsg) when not given
StatusResponse(status, image_url, error_message) ==
    [kind |-> "status", code |-> 200, image_url |-> image_url,
     task_id |-> NoRecord, detail |-> error_message, status |-> status]

TaskNotFoundMsg == [text |-> "Task/Record not found", len |-> 21]
ImageNotFoundMsg ==
    [text |-> "Image not found, not ready, or URL missing", len |-> 42]

\* get_screenshot_record: the row with that id, if there is one
get_screenshot_record(recs, task_id) ==
    IF task_id \in DOMAIN recs THEN task_id ELSE NoRecord

\* get_task_status that reports the s3_path of every record and no
\* error_message
get_task_status_UrlOnly(recs, task_id) ==
    LET record == get_screenshot_record(recs, task_id) IN
    IF record = NoRecord THEN ErrorResponse(404, TaskNotFoundMsg)
    ELSE StatusResponse(recs[record].status, recs[record].s3_path, NoneMsg)

\* get_task_status, its query having succeeded
get_task_status(recs, task_id) ==
    LET record == get_screenshot_record(recs, task_id) IN
    IF record = NoRecord THEN ErrorResponse(404, TaskNotFoundMsg)
    ELSE StatusResponse(recs[record].status,
                        IF recs[record].status = "completed"
                        THEN recs[record].s3_path ELSE NoUrl,
                        IF recs[record].status = "failed"
                        THEN recs[record].error_message ELSE NoneMsg)

\* get_image that redirects to whatever s3_path the record has
get_image_AnyStatus(recs, image_id) ==
    LET record == get_screenshot_record(recs, image_id) IN
    IF record = NoRecord \/ recs[record].s3_path = NoUrl
    THEN ErrorResponse(404, ImageNotFoundMsg)
    ELSE RedirectResponse(recs[record].s3_path)

\* get_image, its query having succeeded
get_image(recs, image_id) ==
    LET record == get_screenshot_record(recs, image_id) IN
    IF \/ record = NoRecord
       \/ recs[record].status /= "completed"
       \/ recs[record].s3_path = NoUrl
    THEN ErrorResponse(404, ImageNotFoundMsg)
    ELSE RedirectResponse(recs[record].s3_path)

\* the ids a client may ask for: those of the records and one of no record
TaskIds == 1..(Len(records) + 1)

\* a client request to one of the two endpoints: the query, which may fail
\* (the exception leaves the handler), and the answer
ClientRequest(r, ep, task_id, dbOk) ==
    /\ reqs[r].pc = "idle"
    /\ r > 1 => reqs[r - 1].pc /= "idle"
    /\ Outcome(dbOk)
    /\ events' = IF dbOk THEN events ELSE events + 1
    /\ reqs' = [reqs EXCEPT ![r] =
          [IdleReq EXCEPT
             !.pc = "done", !.ep = ep, !.task_id = task_id,
             !.now_utc = now, !.touched = {"db"},
             !.resp = IF ~dbOk THEN Unhandled(DbError)
                      ELSE IF ep = "status"
                      THEN get_task_status(records, task_id)
                      ELSE get_image(records, task_id)]]
    /\ UNCHANGED <<now, celeryEnabled, allowed, records, cache, jobs>>

\* GET /status/{task_id}
GetStatus(r) ==
    \E task_id \in TaskIds, dbOk \in BOOLEAN :
        ClientRequest(r, "status", task_id, dbOk)

\* GET /image/{image_id}
GetImage(r) ==
    \E image_id \in TaskIds, dbOk \in BOOLEAN :
        ClientRequest(r, "image", image_id, dbOk)

\* the service with the clients of the two endpoints
ClientNext ==
    \/ Next
    \/ \E r \in ReqIds : GetStatus(r)
    \/ \E r \in ReqIds : GetImage(r)

ClientSpec == Init /\ [][ClientNext]_vars

\* ------------------------------------------------ the worker at work
\* The service with a worker that takes every job that waits in the queue
\* and carries every job it has taken to its end, and with handlers that
\* run on once a request has started.
WorkerRuns(id) ==
    /\ WF_vars(id \in DOMAIN jobs /\ TaskStart(id))
    /\ WF_vars(id \in DOMAIN jobs /\ TaskPerform(id))

HandlerRuns(r) ==
    /\ WF_vars(Lookup(r))
    /\ WF_vars(Create(r))
    /\ WF_vars(DispatchCelery(r))
    /\ WF_vars(SyncMarkProcessing(r))
    /\ WF_vars(SyncPerform(r))
    /\ WF_vars(SyncUpdateCache(r))
    /\ WF_vars(PollOpen(r))
    /\ WF_vars(PollCheck(r))
    /\ WF_vars(PollWake(r))

LiveSpec ==
    /\ Spec
    /\ \A id \in ReqIds : WorkerRuns(id)
    /\ \A r \in ReqIds : HandlerRuns(r)

\* ------------------------------------------- validate_domain on its own
\* validate_domain as a function of the URL of the request and of the
\* allow-list: the requests r = 1, 2, ... each bring a URL, written by the
\* client with or without user-info and port, and are let through or
\* rejected with 400.
Schemes == {"http", "https"}
UserInfos == {<<>>, <<"u">>}
Hosts ==
    {<<"a", ".", "c">>, <<"A", ".", "C">>, <<"b", ".", "a", ".", "c">>,
     <<"e", "a", ".", "c">>, <<"e", ".", "c">>}
Ports == {<<>>, <<"443">>, <<"8080">>}
UrlInputs ==
    [scheme : Schemes, userinfo : UserInfos, host : Hosts, port : Ports]

\* the port an HttpUrl leaves out of its text
DefaultPort(scheme) == IF scheme = "https" THEN <<"443">> ELSE <<"80">>

\* urlparse(str(url)).netloc: user-info, host (which HttpUrl writes in lower
\* case) and port, unless it is the default port of the scheme
Netloc(u) ==
    (IF u.userinfo = <<>> THEN <<>> ELSE u.userinfo \o <<"@">>)
    \o LowerSeq(u.host)
    \o (IF u.port = <<>> \/ u.port = DefaultPort(u.scheme) THEN <<>>
        ELSE <<":">> \o u.port)

\* urlparse(str(url))
ParsedUrl(u) == [scheme |-> u.scheme, netloc |-> Netloc(u)]

ValidateInit ==
    /\ now = 0
    /\ events = 0
    /\ celeryEnabled \in BOOLEAN
    /\ allowed \in AllowLists
    /\ records = <<>>
    /\ cache = [k \in CacheKeys |-> NoEntry]
    /\ jobs = <<>>
    /\ reqs = [r \in ReqIds |-> IdleReq]

\* the domain validation at the head of generate_og_image and root_handler
Validate(r) ==
    /\ reqs[r].pc = "idle"
    /\ r > 1 => reqs[r - 1].pc /= "idle"
    /\ \E ep \in Endpoints, u \in UrlInputs :
         reqs' = [reqs EXCEPT ![r] =
            IF validate_domain(ParsedUrl(u), allowed)
            THEN [IdleReq EXCEPT !.pc = "lookup", !.ep = ep, !.url = u]
            ELSE [IdleReq EXCEPT !.pc = "done", !.ep = ep, !.url = u,
                                 !.resp = ErrorResponse(400, NoneMsg)]]
    /\ UNCHANGED <<now, events, celeryEnabled, allowed, records, cache, jobs>>

ValidateNext == \E r \in ReqIds : Validate(r)

ValidateSpec == ValidateInit /\ [][ValidateNext]_vars

\* ------------------------------------- the two strategies side by side
\* run_sync_generation works on record 1 and a worker execution of
\* generate_screenshot_task on record 2, two records alike (or both
\* missing), and every call of the two to the Renderer, the Publisher and
\* the database has the same outcome, step by step.

\* what run_sync_generation writes in step 1, the write working (dbOk) or
\* raising: the except block then records the failure (failOk)
InlineMark(recs, record_id, dbOk, failOk) ==
    IF dbOk THEN update_db_status(recs, record_id, "processing", NoUrl,
                                  NoneMsg)
    ELSE RecordFailure(recs, record_id, DbError, failOk)

\* what generate_screenshot_task writes first: when the write raises, the
\* task raises
WorkerMark(recs, record_id, dbOk) ==
    IF dbOk THEN update_db_status(recs, record_id, "processing", NoUrl,
                                  NoneMsg)
    ELSE recs

\* what run_sync_generation writes in steps 2 and 3 and in its except block
InlinePerform(recs, record_id, rendered, exc, dbOk, failOk) ==
    IF rendered /\ dbOk
    THEN update_db_status(recs, record_id, "completed", S3Url(record_id),
                          NoneMsg)
    ELSE RecordFailure(recs, record_id, IF rendered THEN DbError ELSE exc,
                       failOk)

\* what generate_screenshot_task writes after the first write
WorkerPerform(recs, record_id, rendered, exc, dbOk, failOk) ==
    IF rendered /\ dbOk
    THEN update_db_status(recs, record_id, "completed", S3Url(record_id),
                          NoneMsg)
    ELSE RecordFailure(recs, record_id, IF rendered THEN DbError ELSE exc,
                       failOk)

\* the caller of run_sync_generation and the job of the worker
PairRequest(url, ttl) ==
    [IdleReq EXCEPT !.pc = "dispatch", !.url = url, !.ttl = ttl,
                    !.expiry = Seconds(TtlSeconds(ttl)), !.new_id = 1,
                    !.touched = {"cache", "db"}]
PairJob(url) == JobOf([IdleReq EXCEPT !.url = url, !.new_id = 2])

PairInit ==
    /\ now = 0
    /\ events = 0
    /\ celeryEnabled \in BOOLEAN
    /\ allowed \in AllowLists
    /\ cache = [k \in CacheKeys |-> NoEntry]
    /\ \E url \in Urls, ttl \in Ttls, missing \in BOOLEAN :
         /\ validate_domain(url, allowed)
         /\ reqs = [r \in ReqIds |-> IF r = 1 THEN PairRequest(url, ttl)
                                     ELSE IdleReq]
         /\ jobs = <<NoJob, PairJob(url)>>
         /\ records =
               IF missing THEN <<>>
               ELSE <<NewRecord(url, Seconds(TtlSeconds(ttl)), 0),
                      NewRecord(url, Seconds(TtlSeconds(ttl)), 0)>>

\* both mark their record as processing
PairMark ==
    /\ reqs[1].pc = "dispatch"
    /\ jobs[2].pc = "queued"
    /\ \E dbOk \in BOOLEAN, failOk \in BOOLEAN :
         /\ Outcome(dbOk)
         /\ dbOk => failOk
         /\ events' = IF dbOk THEN events ELSE events + 1
         /\ records' = WorkerMark(InlineMark(records, 1, dbOk, failOk), 2,
                                  dbOk)
         /\ reqs' = [reqs EXCEPT ![1].pc = IF dbOk THEN "perform"
                                           ELSE "done",
                                 ![1].touched = @ \cup {"dispatch"}]
         /\ jobs' = [jobs EXCEPT ![2].attempts = @ + 1,
                                 ![2].pc = IF dbOk /\ 2 \in DOMAIN records
                                           THEN "running" ELSE "done"]
    /\ UNCHANGED <<now, celeryEnabled, allowed, cache>>

\* both render, upload and record the result, as far as each has come
PairPerform ==
    /\ reqs[1].pc = "perform" \/ jobs[2].pc = "running"
    /\ \E rendered \in BOOLEAN, exc \in RenderErrors, dbOk \in BOOLEAN,
          failOk \in BOOLEAN :
         LET good == rendered /\ dbOk
             inline == reqs[1].pc = "perform"
             worker == jobs[2].pc = "running"
             recs1 == IF inline
                      THEN InlinePerform(records, 1, rendered, exc, dbOk,
                                         failOk)
                      ELSE records
         IN
         /\ Outcome(good)
         /\ ~rendered => dbOk
         /\ good => failOk
         /\ rendered => exc = CHOOSE x \in RenderErrors : TRUE
         /\ events' = IF good THEN events ELSE events + 1
         /\ records' = IF worker
                       THEN WorkerPerform(recs1, 2, rendered, exc, dbOk,
                                          failOk)
                       ELSE recs1
         /\ reqs' = [reqs EXCEPT
               ![1] = IF inline
                      THEN [@ EXCEPT !.pc = "done",
                                     !.s3_url = IF good THEN S3Url(1)
                                                ELSE NoUrl,
                                     !.touched = @ \cup {"renderer"}]
                      ELSE @]
         /\ jobs' = [jobs EXCEPT ![2].pc = "done"]
    /\ UNCHANGED <<now, celeryEnabled, allowed, cache>>

PairNext ==
    \/ Elapse
    \/ PairMark
    \/ PairPerform

PairSpec == PairInit /\ [][PairNext]_vars

\* --------------------------------------------- requests of two sizes
\* The service asked for images of two widths, with an allow-list set.
SmallWidth == DefaultWidth \div 2
SizeWidths == {DefaultWidth, SmallWidth}
SizeKeys == {CacheKey(u, w, h) : u \in Urls, w \in SizeWidths, h \in Heights}

SizeInit ==
    /\ now = 0
    /\ events = 0
    /\ celeryEnabled \in BOOLEAN
    /\ allowed = <<AllowedDomain>>
    /\ records = <<>>
    /\ cache = [k \in SizeKeys |-> NoEntry]
    /\ jobs = <<>>
    /\ reqs = [r \in ReqIds |-> IdleReq]

SizeNext ==
    \/ Next
    \/ \E r \in ReqIds : StartWith(r, SizeWidths)

SizeSpec == SizeInit /\ [][SizeNext]_vars

\* ------------------------------------------- requests after a generation
\* The service after an earlier request has had the image of GoodUrl
\* generated: its record is completed and, the request having written it,
\* the cache entry of its key holds the image URL until the record expires.
RefreshInit ==
    /\ now = 0
    /\ events = 0
    /\ celeryEnabled \in BOOLEAN
    /\ allowed \in AllowLists
    /\ reqs = [r \in ReqIds |-> IdleReq]
    /\ \E ttl \in Ttls :
         LET expires_at == Seconds(TtlSeconds(ttl))
             q == [IdleReq EXCEPT !.url = GoodUrl, !.new_id = 1]
         IN
         /\ records = update_db_status(<<NewRecord(GoodUrl, expires_at, 0)>>,
                                       1, "completed", S3Url(1), NoneMsg)
         /\ jobs = <<IF celeryEnabled
                     THEN [JobOf(q) EXCEPT !.pc = "done", !.attempts = 1]
                     ELSE NoJob>>
         /\ cache = update_cache([k \in CacheKeys |-> NoEntry], KeyOf(q),
                                 S3Url(1), expires_at, 0, TRUE)

RefreshSpec == RefreshInit /\ [][Next]_vars

\* ---------------------------------------------------------------- claims
Terminal == {"completed", "failed"}
InFlightStatus == {"pending", "processing"}

\* the rows of a url that no row of that url is more recent than
MostRecent(url) ==
    { i \in DOMAIN records :
        /\ records[i].url = url
        /\ ~ \E j \in DOMAIN records :
              /\ records[j].url = url
              /\ records[j].created_at > records[i].created_at }

\* request r leaves the database check with the row it read
LeavesLookup(r) ==
    /\ reqs[r].pc = "lookup"
    /\ reqs'[r].pc /= "lookup"
    /\ reqs'[r].resp.kind /= "unhandled"

\* the host of the url is none of the allowed domains nor a subdomain of one
HostNotAllowed(url) ==
    \A i \in 1..Len(allowed) :
        /\ LowerSeq(url.netloc) /= allowed[i]
        /\ ~EndsWith(LowerSeq(url.netloc), <<".">> \o allowed[i])

\* C1: once the status of a record is completed or failed, no step changes
\* it.
C1_TerminalAbsorbing ==
    [][\A id \in DOMAIN records :
          records[id].status \in Terminal
              => records'[id].status = records[id].status]_vars

\* C2: when a /generate request without force_refresh has missed the cache
\* and every most recent record of its url is pending or processing with
\* now_utc < expires_at, its database check (if the query succeeds) answers
\* "processing" with the id of such a record, creates no record and sends no
\* job.
C2_ScenarioB ==
    [][\A r \in ReqIds :
          ( /\ LeavesLookup(r)
            /\ reqs[r].ep = "generate"
            /\ ~reqs[r].force
            /\ MostRecent(reqs[r].url) /= {}
            /\ \A i \in MostRecent(reqs[r].url) :
                  /\ records[i].status \in InFlightStatus
                  /\ reqs[r].now_utc < records[i].expires_at )
          => /\ reqs'[r].pc = "done"
             /\ reqs'[r].resp.kind = "processing"
             /\ reqs'[r].resp.task_id \in MostRecent(reqs[r].url)
             /\ reqs'[r].new_id = NoRecord
             /\ records' = records
             /\ jobs' = jobs]_vars

C2_Witness ==
    \E r \in ReqIds :
        /\ reqs[r].pc = "done"
        /\ reqs[r].ep = "generate"
        /\ ~reqs[r].force
        /\ reqs[r].seen.status = "processing"
        /\ reqs[r].resp.kind = "processing"
        /\ reqs[r].resp.task_id = reqs[r].seen.id
        /\ Len(records) = 1

\* the request has read a row in flight that it must not ignore
SawInFlight(q) ==
    /\ ~q.force
    /\ q.seen.id /= NoRecord
    /\ q.seen.status \in InFlightStatus
    /\ q.now_utc < q.seen.expires_at

\* the request has neither created a record nor started a generation
StartedNothing(q) ==
    /\ q.new_id = NoRecord
    /\ q.pc \in {"done", "poll", "query", "sleep"}
    /\ q.touched \cap {"dispatch", "renderer"} = {}

\* C3 as stated: at either endpoint and under either strategy, a request
\* without force_refresh that read a pending or processing, unexpired record
\* creates no record and starts no generation.
C3_NoSecondGeneration ==
    \A r \in ReqIds : SawInFlight(reqs[r]) => StartedNothing(reqs[r])

\* C3 amended: the same, for /generate under either strategy and for / under
\* the deferred strategy (under the inline strategy root_handler ignores the
\* record in flight and generates anew).
C3_NoSecondGenerationAmended ==
    \A r \in ReqIds :
        (SawInFlight(reqs[r]) /\ (reqs[r].ep = "generate" \/ celeryEnabled))
            => StartedNothing(reqs[r])

C3_Witness ==
    \E r \in ReqIds :
        /\ SawInFlight(reqs[r])
        /\ reqs[r].ep = "generate"
        /\ ~celeryEnabled
        /\ reqs[r].pc = "done"
        /\ reqs[r].resp.kind = "processing"

\* the ttl_seconds of a request
RequestedTtl(q) ==
    IF q.ttl = NoTtl THEN SCREENSHOT_DEFAULT_TTL ELSE q.ttl * SecondsPerHour

\* C4: a valid /generate request that finds no record of its url creates one
\* record (every record is the one record of one request), pending when
\* created, with expires_at = now_utc + the requested or default TTL; when no
\* collaborator fails it is answered "processing" with the id of its record
\* under the deferred strategy and with the image URL of its record under
\* the inline strategy.
C4_ScenarioA ==
    /\ DOMAIN records = {reqs[r].new_id : r \in ReqIds} \ {NoRecord}
    /\ \A r1, r2 \in ReqIds :
          (r1 /= r2 /\ reqs[r1].new_id = reqs[r2].new_id)
              => reqs[r1].new_id = NoRecord
    /\ \A r \in ReqIds :
          LET q == reqs[r] IN
          /\ q.pc = "dispatch"
                => /\ records[q.new_id].status = "pending"
                   /\ records[q.new_id].expires_at
                         = q.now_utc + Seconds(RequestedTtl(q))
          /\ ( /\ q.pc = "done"
               /\ q.ep = "generate"
               /\ "db" \in q.touched
               /\ q.seen.id = NoRecord
               /\ events = 0 )
                => /\ q.new_id /= NoRecord
                   /\ celeryEnabled
                         => /\ q.resp.kind = "processing"
                            /\ q.resp.task_id = q.new_id
                   /\ ~celeryEnabled
                         => /\ q.resp.kind = "cached"
                            /\ q.resp.image_url /= NoUrl
                            /\ q.resp.image_url = records[q.new_id].s3_path

\* request r leaves the database check of a request without force_refresh,
\* every most recent record of its url being completed with an s3_path and
\* now_utc < expires_at
LooksUpFresh(r) ==
    /\ LeavesLookup(r)
    /\ ~reqs[r].force
    /\ MostRecent(reqs[r].url) /= {}
    /\ \A i \in MostRecent(reqs[r].url) :
          /\ records[i].status = "completed"
          /\ records[i].s3_path /= NoUrl
          /\ reqs[r].now_utc < records[i].expires_at

\* ... and then answers with the image URL of such a record, creates no
\* record and calls neither the renderer nor the publisher
ServesFresh(r) ==
    /\ reqs'[r].pc = "done"
    /\ reqs'[r].resp.kind \in {"cached", "redirect"}
    /\ reqs'[r].resp.image_url
          \in {records[i].s3_path : i \in MostRecent(reqs[r].url)}
    /\ reqs'[r].new_id = NoRecord
    /\ reqs'[r].touched \cap {"dispatch", "renderer"} = {}
    /\ records' = records
    /\ jobs' = jobs

\* C5 as stated: scenario C serves the record and, Redis working, writes
\* the cache entry of the request's fingerprint with the record's image URL.
C5_ScenarioC ==
    [][\A r \in ReqIds :
          LooksUpFresh(r)
          => /\ ServesFresh(r)
             /\ events' = events
                   => /\ cache'[KeyOf(reqs[r])].value.s3_url
                            = reqs'[r].resp.image_url
                      /\ cache'[KeyOf(reqs[r])].exp > now]_vars

\* C5 amended: scenario C serves the record; it writes the cache entry, to
\* live for the whole seconds that remain until the record's expires_at,
\* when a whole second or more remains at the time of the write (and Redis
\* works), and it leaves the cache as it was otherwise.
C5_ScenarioCAmended ==
    [][\A r \in ReqIds :
          LooksUpFresh(r)
          => /\ ServesFresh(r)
             /\ LET left == reqs'[r].seen.expires_at - now IN
                IF events' = events /\ left >= UnitsPerSecond
                THEN cache' = [cache EXCEPT ![KeyOf(reqs[r])] =
                          [value |-> [s3_url |-> reqs'[r].resp.image_url],
                           exp |-> now + left - (left % UnitsPerSecond)]]
                ELSE cache' = cache]_vars

C5_Witness ==
    \E r \in ReqIds :
        LET q == reqs[r] IN
        /\ q.pc = "done"
        /\ ~q.force
        /\ celeryEnabled
        /\ q.seen.status = "completed"
        /\ q.new_id = NoRecord
        /\ q.resp.image_url = q.seen.s3_path
        /\ q.resp.image_url /= NoUrl
        /\ cache[KeyOf(q)] = [value |-> [s3_url |-> q.seen.s3_path],
                              exp |-> q.seen.expires_at]

\* the request has read a stale row: failed, or completed and expired
SawStale(q) ==
    /\ q.seen.id /= NoRecord
    /\ \/ q.seen.status = "failed"
       \/ q.seen.status = "completed" /\ q.seen.expires_at <= q.now_utc

\* C6: a request that read a failed record, or a completed record whose
\* expires_at has passed, goes on to create a new record, pending when
\* created, and to start a generation for it (unless creating the record
\* fails), and no step of the request changes a field of the stale record.
C6_ScenarioD ==
    /\ [](\A r \in ReqIds :
            LET q == reqs[r] IN
            SawStale(q)
            => /\ q.pc \in {"create", "dispatch", "perform", "cacheupd",
                            "poll", "query", "sleep", "done"}
               /\ q.new_id /= q.seen.id
               /\ q.pc = "dispatch" => records[q.new_id].status = "pending"
               /\ q.pc \in {"perform", "cacheupd", "poll", "query", "sleep"}
                     => /\ q.new_id /= NoRecord
                        /\ "dispatch" \in q.touched
               /\ q.pc \in {"poll", "query", "sleep"} => q.poll_id = q.new_id
               /\ q.pc = "done"
                     => \/ q.new_id /= NoRecord /\ "dispatch" \in q.touched
                        \/ /\ q.new_id = NoRecord
                           /\ q.resp = ErrorResponse(500, DbError))
    /\ [][\A r \in ReqIds :
            (reqs'[r] /= reqs[r] /\ SawStale(reqs'[r]))
            => records'[reqs'[r].seen.id] = records[reqs'[r].seen.id]]_vars

C6_Witness ==
    \E r \in ReqIds :
        LET q == reqs[r] IN
        /\ q.pc = "done"
        /\ ~q.force
        /\ q.seen.status = "completed"
        /\ q.seen.expires_at < q.now_utc
        /\ q.new_id /= NoRecord
        /\ "dispatch" \in q.touched
        /\ records[q.seen.id].status = "completed"
        /\ records[q.seen.id].s3_path = q.seen.s3_path
        /\ records[q.seen.id].expires_at = q.seen.expires_at

\* C7: with an allow-list configured, a request whose host is neither an
\* allowed domain nor a subdomain of one is answered 400 at once: it creates
\* no record and calls no collaborator.
C7_ScenarioE ==
    \A r \in ReqIds :
        LET q == reqs[r] IN
        (q.pc /= "idle" /\ allowed /= <<>> /\ HostNotAllowed(q.url))
        => /\ q.pc = "done"
           /\ q.resp.kind = "error"
           /\ q.resp.code = 400
           /\ q.touched = {}
           /\ q.new_id = NoRecord
           /\ q.seen = NoSeen

C7_Witness ==
    \E r \in ReqIds :
        /\ allowed = <<AllowedDomain>>
        /\ reqs[r].url = EvilUrl
        /\ reqs[r].pc = "done"
        /\ reqs[r].resp.code = 400
        /\ records = <<>>

\* C8: no exception leaves a request handler: every request is answered by
\* a response the handler built.
C8_NoEscape ==
    \A r \in ReqIds : reqs[r].resp.kind /= "unhandled"

\* C9: every change of a record's status is pending -> processing,
\* processing -> completed or processing -> failed.
C9_ForwardOnly ==
    [][\A id \in DOMAIN records :
          records'[id].status /= records[id].status
          => <<records[id].status, records'[id].status>>
                \in { <<"pending", "processing">>,
                      <<"processing", "completed">>,
                      <<"processing", "failed">> }]_vars

\* C10: a record has an s3_path if and only if its status is completed, and
\* a completed record has no error_message.
C10_ArtifactIffCompleted ==
    \A id \in DOMAIN records :
        /\ records[id].s3_path /= NoUrl <=> records[id].status = "completed"
        /\ records[id].status = "completed"
              => records[id].error_message = NoneMsg

\* the non-empty error_message of a row
HasError(rec) == rec.error_message /= NoneMsg /\ rec.error_message.len > 0

\* C11: a record has a non-empty error_message if and only if it is failed,
\* the error_message is at most 500 characters long, and a failed record has
\* no s3_path.
C11_ErrorIffFailed ==
    \A id \in DOMAIN records :
        /\ HasError(records[id]) <=> records[id].status = "failed"
        /\ records[id].error_message.len <= MaxErrorLen
        /\ records[id].status = "failed" => records[id].s3_path = NoUrl

\* C12: a request without force_refresh whose cache key holds a live entry
\* that Redis returns is answered at once with the cached image URL: it reads
\* no record, creates none, sends no job, and leaves the cache and the
\* records as they were.
C12_CacheHit ==
    [][\A r \in ReqIds :
          LET e == cache[KeyOf(reqs'[r])] IN
          ( /\ reqs[r].pc = "idle"
            /\ reqs'[r].pc /= "idle"
            /\ ~reqs'[r].force
            /\ e /= NoEntry
            /\ now < e.exp
            /\ events' = events )
          => /\ reqs'[r].pc = "done"
             /\ reqs'[r].resp.kind \in {"cached", "redirect"}
             /\ reqs'[r].resp.image_url = e.value.s3_url
             /\ reqs'[r].touched = {"cache"}
             /\ reqs'[r].seen = NoSeen
             /\ reqs'[r].new_id = NoRecord
             /\ cache' = cache
             /\ records' = records
             /\ jobs' = jobs]_vars

C12_Witness ==
    \E r \in ReqIds :
        /\ reqs[r].pc = "done"
        /\ ~reqs[r].force
        /\ reqs[r].touched = {"cache"}
        /\ reqs[r].seen = NoSeen
        /\ reqs[r].resp.image_url /= NoUrl
        /\ reqs[r].resp.image_url = cache[KeyOf(reqs[r])].value.s3_url

\* C13: every cache entry holds the s3_path of a record of its url and
\* expires no later than that record's expires_at (the write taking no
\* time); and a request answered from the cache was answered with the
\* s3_path of a record whose expires_at had not passed.
C13_CacheWithinRecord ==
    /\ \A key \in CacheKeys :
          cache[key] /= NoEntry
          => \E id \in DOMAIN records :
                /\ records[id].url = key[2]
                /\ records[id].s3_path = cache[key].value.s3_url
                /\ cache[key].exp <= records[id].expires_at
    /\ \A r \in ReqIds :
          LET q == reqs[r] IN
          ( /\ q.pc = "done"
            /\ q.seen = NoSeen
            /\ q.new_id = NoRecord
            /\ q.resp.image_url /= NoUrl )
          => \E id \in DOMAIN records :
                /\ records[id].s3_path = q.resp.image_url
                /\ q.now_utc < records[id].expires_at

C13_Witness ==
    \E key \in CacheKeys, id \in DOMAIN records :
        /\ cache[key] /= NoEntry
        /\ records[id].s3_path = cache[key].value.s3_url
        /\ cache[key].exp < records[id].expires_at
        /\ now < cache[key].exp

\* C14: a call of update_cache with an expiry time that is not in the
\* future, or with an empty URL, leaves the cache as it was.
C14_NoWrite ==
    [][\A r \in ReqIds :
          ( /\ reqs[r].pc = "idle"
            /\ reqs'[r].pc = "done"
            /\ \/ reqs'[r].expiry - now <= 0
               \/ reqs'[r].s3_url = NoUrl )
          => cache' = cache]_vars

C14_Witness ==
    \E r \in ReqIds :
        LET q == reqs[r] IN
        /\ q.pc = "done"
        /\ q.touched = {"cache"}
        /\ q.s3_url = NoUrl
        /\ q.expiry > q.now_utc + UnitsPerSecond
        /\ cache[KeyOf(q)] = NoEntry
        /\ \E r2 \in ReqIds :
              /\ reqs[r2].pc = "done"
              /\ reqs[r2].touched = {"cache"}
              /\ reqs[r2].s3_url /= NoUrl
              /\ reqs[r2].expiry <= reqs[r2].now_utc
              /\ cache[KeyOf(reqs[r2])] = NoEntry

\* C15: a second update_cache of a key, later than the first and with the
\* same URL and the same expiry time, Redis working and the first entry
\* still alive, leaves the same cached value and an expiry that is not later
\* than the first entry's.
C15_RepeatShrinks ==
    [][\A r1, r2 \in ReqIds :
          LET key == KeyOf(reqs[r1]) IN
          ( /\ reqs[r1].pc = "done"
            /\ reqs[r2].pc = "idle"
            /\ reqs'[r2].pc = "done"
            /\ KeyOf(reqs'[r2]) = key
            /\ reqs'[r2].s3_url = reqs[r1].s3_url
            /\ reqs'[r2].expiry = reqs[r1].expiry
            /\ now > reqs[r1].now_utc
            /\ cache[key] /= NoEntry
            /\ now < cache[key].exp
            /\ events' = events )
          => /\ cache'[key].value = cache[key].value
             /\ cache'[key].exp <= cache[key].exp]_vars

\* the step in which a call of request r to the cache fails
CacheFails(r) ==
    /\ "cache_failed" \notin reqs[r].touched
    /\ "cache_failed" \in reqs'[r].touched

\* C16: a failing read of the cache is a miss; a request whose write to the
\* cache fails is still answered with the image URL of a completed record,
\* and the records are not changed.
C16_CacheFailuresContained ==
    [][\A r \in ReqIds :
          CacheFails(r)
          => IF reqs[r].pc = "idle"
             THEN /\ reqs'[r].pc = "lookup"
                  /\ records' = records
             ELSE /\ reqs'[r].pc = "done"
                  /\ reqs'[r].resp.kind \in {"cached", "redirect"}
                  /\ \E id \in DOMAIN records :
                        /\ records[id].status = "completed"
                        /\ records[id].s3_path = reqs'[r].resp.image_url
                        /\ records[id].s3_path /= NoUrl
                  /\ records' = records]_vars

C18_InlineFailure ==
    [][\A r \in ReqIds :
          LET q == reqs[r]
              q1 == reqs'[r]
          IN
          (q.pc = "perform" /\ "render_failed" \in q1.touched)
          => \E exc \in RenderErrors :
                /\ q1.pc = "done"
                /\ q1.resp.kind = "error"
                /\ q.ep = "generate" => q1.resp.detail = exc
                /\ IF "unrecorded" \in q1.touched
                   THEN records' = records
                   ELSE /\ records'[q.new_id].status = "failed"
                        /\ records'[q.new_id].error_message = Truncate(exc)
                        /\ records'[q.new_id].error_message.len
                              <= MaxErrorLen]_vars

C18_Witness ==
    \E r \in ReqIds :
        LET q == reqs[r] IN
        /\ q.pc = "done"
        /\ q.ep = "generate"
        /\ "render_failed" \in q.touched
        /\ "unrecorded" \notin q.touched
        /\ q.resp.detail.len > MaxErrorLen
        /\ records[q.new_id].status = "failed"
        /\ records[q.new_id].error_message.len = MaxErrorLen

\* C19: whenever dispatch_celery_task fails to send the job, the record of
\* the request is failed with the message "Failed to queue task" and the
\* request is answered with a 500 error.
C19_HandoffFailure ==
    [][\A r \in ReqIds :
          ( /\ reqs[r].pc = "dispatch"
            /\ celeryEnabled
            /\ reqs'[r].pc = "done"
            /\ jobs'[reqs[r].new_id].pc = "none" )
          => /\ reqs'[r].resp.kind = "error"
             /\ reqs'[r].resp.code = 500
             /\ records'[reqs[r].new_id].status = "failed"
             /\ records'[reqs[r].new_id].error_message = QueueFailMsg]_vars

\* C20: a job that is running has its record processing, and the step that
\* ends an execution of a job leaves the record completed or failed.
C20_OneTerminalPerAttempt ==
    /\ [](\A id \in DOMAIN jobs :
             jobs[id].pc = "running" => records[id].status = "processing")
    /\ [][\A id \in DOMAIN jobs :
             (jobs[id].pc \in {"queued", "running"} /\ jobs'[id].pc = "done")
             => records'[id].status \in Terminal]_vars

\* a poll of the record whose query failed, which ends the request with a
\* 500 of its own
PollQueryFailed(q) == q.resp = ErrorResponse(500, NoneMsg)

\* C22 (Scenario F): while the polled record stays pending or processing,
\* the poller polls again poll_interval_seconds after each poll, stops at
\* the first loop test made max_wait_seconds or more after its start, and
\* ends with the timeout (504), which differs from the answer to a failed
\* generation (500); it never answers with the image or with a generation
\* failure, and it always ends.  (A poll whose query fails ends the request
\* with a 500 of the store instead.)
C22_ScenarioF ==
    /\ \A r \in ReqIds : reqs[r].pc = "poll" ~> reqs[r].pc = "done"
    /\ [](\A r \in ReqIds :
            LET q == reqs[r] IN
            q.pc = "done"
            => \/ /\ q.resp = ErrorResponse(504, TimeoutMsg)
                  /\ q.resp.code /= GenerationFailed(q.ep, UnknownError).code
                  /\ now - q.start_time >= Seconds(max_wait_seconds)
               \/ /\ PollQueryFailed(q)
                  /\ events > 0)
    /\ [][\A r \in ReqIds :
            LET q == reqs[r] IN
            /\ (q.pc = "poll" /\ reqs'[r].pc = "done")
                  => now - q.start_time >= Seconds(max_wait_seconds)
            /\ (q.pc = "poll" /\ reqs'[r].pc = "query")
                  => now - q.start_time < Seconds(max_wait_seconds)
            /\ (q.pc = "query" /\ reqs'[r].pc = "sleep")
                  => reqs'[r].wake = now + Seconds(poll_interval_seconds)
            /\ (q.pc = "sleep" /\ reqs'[r].pc = "poll")
                  => now >= q.wake
            /\ q.pc = "sleep" => reqs'[r].pc \in {"sleep", "poll"}
         ]_vars

\* the poller gave up on a record that is still pending or processing
C22_Witness ==
    \E r \in ReqIds :
        /\ reqs[r].pc = "done"
        /\ reqs[r].resp = ErrorResponse(504, TimeoutMsg)
        /\ reqs[r].poll_id \in DOMAIN records
        /\ records[reqs[r].poll_id].status \in InFlightStatus
        /\ now - reqs[r].start_time >= Seconds(max_wait_seconds)
        /\ now - reqs[r].start_time
              < Seconds(max_wait_seconds + poll_interval_seconds)

\* the state in which the poller starts on its own is a state of the service
PollerStarted ==
    /\ reqs[1] = PollRequest
    /\ records = <<PollRecord(TRUE)>>
    /\ jobs = <<PollJob(TRUE)>>
    /\ now = 0

\* the poll of request r that reads the record (its query succeeds)
PollReads(r) ==
    /\ reqs[r].pc = "query"
    /\ reqs'[r].pc /= "query"
    /\ events' /= events => CacheFails(r)

\* C23 as stated: the first poll that reads the record completed writes the
\* cache entry of the caller's key with the record's s3_path, to expire with
\* the record, and returns that non-empty s3_path; the first poll that reads
\* it failed fails with the record's error_message; and neither is followed
\* by another poll.
C23_PollerOutcomes ==
    [][\A r \in ReqIds :
          LET q == reqs[r]
              rec == records[q.poll_id]
          IN
          /\ (PollReads(r) /\ rec.status = "completed")
                => /\ reqs'[r].pc = "done"
                   /\ rec.s3_path /= NoUrl
                   /\ reqs'[r].resp = RedirectResponse(rec.s3_path)
                   /\ events' = events
                         => /\ cache'[KeyOf(q)].value.s3_url = rec.s3_path
                            /\ cache'[KeyOf(q)].exp > now
                            /\ cache'[KeyOf(q)].exp <= rec.expires_at
          /\ (PollReads(r) /\ rec.status = "failed")
                => /\ reqs'[r].pc = "done"
                   /\ reqs'[r].resp = ErrorResponse(500, rec.error_message)
                   /\ cache' = cache
          /\ q.pc = "done" => reqs'[r].pc = "done"]_vars

\* C23 amended: the first poll that reads the record completed returns its
\* non-empty s3_path; it writes the cache entry of the caller's key with that
\* s3_path, to live for the whole seconds that remain until the record's
\* expires_at, when a whole second or more remains (and Redis works), and it
\* leaves the cache as it was otherwise.  The first poll that reads the
\* record failed fails with the record's error_message, or with 'Unknown
\* error' when that message is empty.  Neither is followed by another poll.
C23_PollerOutcomesAmended ==
    [][\A r \in ReqIds :
          LET q == reqs[r]
              rec == records[q.poll_id]
              left == rec.expires_at - now
          IN
          /\ (PollReads(r) /\ rec.status = "completed")
                => /\ reqs'[r].pc = "done"
                   /\ rec.s3_path /= NoUrl
                   /\ reqs'[r].resp = RedirectResponse(rec.s3_path)
                   /\ IF events' = events /\ left >= UnitsPerSecond
                      THEN cache' = [cache EXCEPT ![KeyOf(q)] =
                               [value |-> [s3_url |-> rec.s3_path],
                                exp |-> now + left - (left % UnitsPerSecond)]]
                      ELSE cache' = cache
          /\ (PollReads(r) /\ rec.status = "failed")
                => /\ reqs'[r].pc = "done"
                   /\ reqs'[r].resp =
                         ErrorResponse(500, IF HasError(rec)
                                            THEN rec.error_message
                                            ELSE UnknownError)
                   /\ cache' = cache
          /\ (PollReads(r) /\ rec.status \in InFlightStatus)
                => reqs'[r].pc = "sleep" /\ cache' = cache
          /\ q.pc = "done" => reqs'[r].pc = "done"]_vars

\* a poll read the record completed, wrote the cache entry and returned
C23_Witness ==
    \E r \in ReqIds :
        LET q == reqs[r] IN
        /\ q.pc = "done"
        /\ q.poll_id /= NoRecord
        /\ records[q.poll_id].status = "completed"
        /\ q.resp = RedirectResponse(records[q.poll_id].s3_path)
        /\ cache[KeyOf(q)] =
              [value |-> [s3_url |-> records[q.poll_id].s3_path],
               exp |-> records[q.poll_id].expires_at]

\* C24: the poller holds a session of its own only during the query of a
\* poll: each poll opens one and closes it before the poller sleeps, so that
\* while a poller sleeps a worker can take or finish the job and another
\* request can look up the records.  (The session that get_db gives the
\* request itself is not the poller's.)
C24_NoSessionBetweenPolls ==
    \A r \in ReqIds :
        /\ reqs[r].poll_db <=> reqs[r].pc = "query"
        /\ reqs[r].pc = "sleep"
              => /\ ~reqs[r].poll_db
                 /\ \A id \in DOMAIN jobs :
                       /\ jobs[id].pc = "queued" => ENABLED TaskStart(id)
                       /\ jobs[id].pc = "running" => ENABLED TaskPerform(id)
                 /\ \A r2 \in ReqIds :
                       reqs[r2].pc = "lookup" => ENABLED Lookup(r2)

\* a worker finished the job of the polled record while the poller slept
C24_Witness ==
    \E r \in ReqIds :
        /\ reqs[r].pc = "sleep"
        /\ ~reqs[r].poll_db
        /\ records[reqs[r].poll_id].status = "completed"
        /\ jobs[reqs[r].poll_id].pc = "done"

\* the step in which the poller of request r gives up
PollTimesOut(r) ==
    /\ reqs[r].pc = "poll"
    /\ reqs'[r].pc = "done"

\* request r was answered with the timeout of the poller
TimedOut(r) ==
    /\ reqs[r].pc = "done"
    /\ reqs[r].poll_id /= NoRecord
    /\ reqs[r].resp = ErrorResponse(504, TimeoutMsg)

CreatedAndSent(r) ==
    /\ ~reqs[r].force
    /\ "cache" \in reqs[r].touched
    /\ reqs[r].seen.id = NoRecord
    /\ reqs[r].new_id /= NoRecord
    /\ "dispatch" \in reqs[r].touched

\* C26: nothing serialises the requests for one URL: create_db_record adds
\* the row of a request whatever rows exist, and a job is sent for every row
\* created, so that two requests for one URL that both missed the cache and
\* both found no row can leave two rows in flight, both unexpired, for that
\* URL (the state C26_Witness).
C26_NoMutualExclusion ==
    [][\A r \in ReqIds :
          LET q == reqs[r] IN
          /\ (q.pc = "create" /\ reqs'[r].pc = "dispatch")
                => /\ records' = Append(records,
                                        NewRecord(q.url, q.expiry, now))
                   /\ reqs'[r].new_id = Len(records')
          /\ (q.pc = "dispatch" /\ celeryEnabled /\ events' = events
                /\ reqs'[r] /= q)
                => jobs'[q.new_id] = JobOf(q)]_vars

\* two requests for one URL each created a row and sent its job, and both
\* rows are pending or processing and unexpired
C26_Witness ==
    \E r1 \in ReqIds, r2 \in ReqIds :
        LET q1 == reqs[r1]
            q2 == reqs[r2]
        IN
        /\ r1 /= r2
        /\ q1.url = q2.url
        /\ CreatedAndSent(r1)
        /\ CreatedAndSent(r2)
        /\ q1.new_id /= q2.new_id
        /\ \A id \in {q1.new_id, q2.new_id} :
              /\ records[id].url = q1.url
              /\ records[id].status \in InFlightStatus
              /\ records[id].expires_at > now
              /\ jobs[id].pc \in {"queued", "running"}

\* the step in which generate_og_image hands the job of request r to the
\* queue
HandsOff(r) ==
    /\ reqs[r].pc = "dispatch"
    /\ reqs[r].ep = "generate"
    /\ celeryEnabled
    /\ jobs'[reqs[r].new_id] /= jobs[reqs[r].new_id]

\* C27: under the deferred strategy generate_og_image answers "processing"
\* with the id of the record it has just created in the step in which the
\* job is handed to the queue, without waiting for a worker: the record is
\* still pending then.  Under the inline strategy an answer with an image
\* URL, for a record the request created, is given only once that record is
\* completed, and carries that record's s3_path.  (Inline, generate_og_image
\* itself gives no such answer, see C4; root_handler does.)
C27_ResponseTiming ==
    /\ [][\A r \in ReqIds :
            HandsOff(r)
            => /\ reqs'[r].pc = "done"
               /\ reqs'[r].resp.kind = "processing"
               /\ reqs'[r].resp.task_id = reqs[r].new_id
               /\ records' = records
               /\ records[reqs[r].new_id].status = "pending"
               /\ jobs'[reqs[r].new_id].pc = "queued"]_vars
    /\ [](\A r \in ReqIds :
            LET q == reqs[r] IN
            (~celeryEnabled /\ q.new_id /= NoRecord
               /\ q.resp.kind \in {"cached", "redirect"})
            => /\ records[q.new_id].status = "completed"
               /\ q.resp.image_url = records[q.new_id].s3_path
               /\ q.resp.image_url /= NoUrl)

\* the answer "processing" has been given, and no worker has taken the job:
\* the record is still pending
C27_Witness ==
    \E r \in ReqIds :
        LET q == reqs[r] IN
        /\ celeryEnabled
        /\ q.ep = "generate"
        /\ q.pc = "done"
        /\ q.new_id /= NoRecord
        /\ q.resp.kind = "processing"
        /\ q.resp.task_id = q.new_id
        /\ records[q.new_id].status = "pending"
        /\ jobs[q.new_id].pc = "queued"

\* request r generates inline the record it created
GeneratesInline(r) ==
    /\ ~celeryEnabled
    /\ reqs[r].new_id /= NoRecord

\* what run_sync_generation has done when it stands before each step: the
\* record is processing and nothing is rendered before step 2; the record
\* is completed with the URL of the upload before step 4
SyncOrder(r) ==
    LET q == reqs[r]
        rec == records[q.new_id]
    IN
    /\ q.pc = "dispatch" => rec.status = "pending"
    /\ q.pc = "perform"
          => /\ rec.status = "processing"
             /\ rec.s3_path = NoUrl
             /\ "renderer" \notin q.touched
    /\ q.pc = "cacheupd"
          => /\ "renderer" \in q.touched
             /\ rec.status = "completed"
             /\ rec.s3_path = q.s3_url
             /\ q.s3_url /= NoUrl
    /\ (q.pc = "done" /\ q.s3_url /= NoUrl)
          => /\ rec.status = "completed"
             /\ rec.s3_path = q.s3_url

\* C28 as stated: run_sync_generation, when nothing fails, sets the record
\* processing, renders and uploads, sets the record completed with the URL,
\* then writes the cache entry of the request's key with that URL, and only
\* then returns; the cache is never written before the record is completed.
C28_InlineOrdering ==
    /\ [](\A r \in ReqIds : GeneratesInline(r) => SyncOrder(r))
    /\ [][\A r \in ReqIds :
            LET q == reqs[r] IN
            /\ (GeneratesInline(r) /\ q.pc /= "cacheupd"
                  /\ reqs'[r] /= q)
                  => cache' = cache
            /\ (q.pc = "cacheupd" /\ reqs'[r].pc = "done")
                  => /\ records' = records
                     /\ events' = events
                           => /\ cache'[KeyOf(q)].value.s3_url
                                    = records[q.new_id].s3_path
                              /\ cache'[KeyOf(q)].exp > now
                              /\ cache'[KeyOf(q)].exp <= q.expiry]_vars

\* C28 amended: as stated, but step 4 writes the cache entry, to live for
\* the whole seconds that remain until expires_at, when a whole second or
\* more remains at that moment (and Redis works), and leaves the cache as it
\* was otherwise; the call returns the URL in either case.
C28_InlineOrderingAmended ==
    /\ [](\A r \in ReqIds : GeneratesInline(r) => SyncOrder(r))
    /\ [][\A r \in ReqIds :
            LET q == reqs[r]
                left == q.expiry - now
            IN
            /\ (GeneratesInline(r) /\ q.pc /= "cacheupd"
                  /\ reqs'[r] /= q)
                  => cache' = cache
            /\ (q.pc = "cacheupd" /\ reqs'[r].pc = "done")
                  => /\ records' = records
                     /\ reqs'[r].s3_url = records[q.new_id].s3_path
                     /\ IF events' = events /\ left >= UnitsPerSecond
                        THEN cache' = [cache EXCEPT ![KeyOf(q)] =
                                 [value |-> [s3_url |->
                                               records[q.new_id].s3_path],
                                  exp |-> now + left
                                            - (left % UnitsPerSecond)]]
                        ELSE cache' = cache]_vars

\* run_sync_generation has returned: the record is completed and the cache
\* entry of the request's key holds its URL, to expire with the record
C28_Witness ==
    \E r \in ReqIds :
        LET q == reqs[r] IN
        /\ GeneratesInline(r)
        /\ q.pc = "done"
        /\ "renderer" \in q.touched
        /\ records[q.new_id].status = "completed"
        /\ q.s3_url = records[q.new_id].s3_path
        /\ cache[KeyOf(q)] = [value |-> [s3_url |-> q.s3_url],
                              exp |-> records[q.new_id].expires_at]

\* the step in which request r, a client request to endpoint ep, is
\* answered, its query having succeeded
Answered(r, ep) ==
    /\ reqs[r].pc = "idle"
    /\ reqs'[r].pc = "done"
    /\ reqs'[r].ep = ep
    /\ events' = events

\* C29: /status/{task_id} answers 404 when no record has the id; otherwise
\* it answers with the status the record has, with an image_url exactly when
\* the record is completed (its s3_path), and with an error_message exactly
\* when the record is failed (its error_message, which can be the empty
\* text: see C11).
C29_GetStatus ==
    [][\A r \in ReqIds :
          Answered(r, "status")
          => LET id == reqs'[r].task_id
                 a == reqs'[r].resp
             IN
             IF id \notin DOMAIN records
             THEN a.kind = "error" /\ a.code = 404
             ELSE /\ a.kind = "status"
                  /\ a.code = 200
                  /\ a.status = records[id].status
                  /\ a.image_url /= NoUrl <=> records[id].status = "completed"
                  /\ a.detail /= NoneMsg <=> records[id].status = "failed"
                  /\ a.image_url /= NoUrl => a.image_url = records[id].s3_path
                  /\ a.detail /= NoneMsg
                        => a.detail = records[id].error_message]_vars

\* a client was told the error_message of a failed record
C29_Witness ==
    \E r \in ReqIds :
        LET q == reqs[r] IN
        /\ q.pc = "done"
        /\ q.ep = "status"
        /\ q.task_id \in DOMAIN records
        /\ records[q.task_id].status = "failed"
        /\ q.resp.kind = "status"
        /\ q.resp.status = "failed"
        /\ q.resp.detail = records[q.task_id].error_message
        /\ q.resp.image_url = NoUrl

\* C30: /image/{image_id} redirects (307) to the s3_path of the record if
\* and only if a record has the id and it is completed; otherwise it
\* answers 404.
C30_GetImage ==
    [][\A r \in ReqIds :
          Answered(r, "image")
          => LET id == reqs'[r].task_id
                 a == reqs'[r].resp
             IN
             IF id \in DOMAIN records /\ records[id].status = "completed"
             THEN /\ a.kind = "redirect"
                  /\ a.code = 307
                  /\ a.image_url = records[id].s3_path
                  /\ a.image_url /= NoUrl
             ELSE a.kind = "error" /\ a.code = 404]_vars

\* a client was redirected to the image of a completed record
C30_Witness ==
    \E r \in ReqIds :
        LET q == reqs[r] IN
        /\ q.pc = "done"
        /\ q.ep = "image"
        /\ q.task_id \in DOMAIN records
        /\ records[q.task_id].status = "completed"
        /\ q.resp = RedirectResponse(records[q.task_id].s3_path)
        /\ q.resp.image_url /= NoUrl

\* what a client that polls /status/{task_id} is told of record id: that it
\* is completed, with an image URL, or failed, with an error message of
\* MaxErrorLen characters at most
ToldTerminal(id) ==
    LET a == get_task_status(records, id) IN
    /\ a.kind = "status"
    /\ \/ a.status = "completed" /\ a.image_url /= NoUrl
       \/ a.status = "failed" /\ a.detail.len \in 0..MaxErrorLen

\* C21: for every id that /generate has given out with the answer
\* "processing", a client that polls /status/{task_id} is eventually told
\* completed or failed, the worker running every job that is queued; no
\* record stays pending or processing for ever.
C21_PollingLiveness ==
    \A r \in ReqIds : \A id \in ReqIds :
        (reqs[r].resp.kind = "processing" /\ reqs[r].resp.task_id = id)
            ~> ToldTerminal(id)

\* C31: the HTTP status of an answer of /generate follows its outcome: 200
\* with an image URL (cache hit, fresh record or inline generation), 202 with
\* "processing", a 4xx status when the URL is rejected, and a 5xx status for
\* every other failure.
C31_StatusCodes ==
    \A r \in ReqIds :
        LET q == reqs[r] IN
        (q.pc = "done" /\ q.ep = "generate")
        => /\ q.resp.kind = "cached" => q.resp.code = 200
           /\ q.resp.kind = "processing" => q.resp.code = 202
           /\ q.resp.kind \in {"cached", "processing", "error", "unhandled"}
           /\ q.resp.kind \in {"error", "unhandled"}
                 => IF validate_domain(q.url, allowed)
                    THEN q.resp.code \in 500..599
                    ELSE q.resp.code \in 400..499

\* the host is an allowed domain or a subdomain of one, in any case of the
\* letters
HostAllowed(host, allowList) ==
    \E i \in 1..Len(allowList) :
        \/ LowerSeq(host) = allowList[i]
        \/ EndsWith(LowerSeq(host), <<".">> \o allowList[i])

\* C32: a URL passes the validation exactly when its scheme is http or
\* https, its host is not empty and, an allow-list being configured, its
\* host is an allowed domain or ends with "." and an allowed domain, letters
\* compared without case; a port or user-info in the URL changes nothing,
\* and a host that ends with an allowed domain without the dot is rejected.
C32_UrlValidation ==
    \A r \in ReqIds :
        LET q == reqs[r] IN
        q.pc /= "idle"
        => /\ q.pc \in {"lookup", "done"}
           /\ q.pc = "lookup"
                 <=> /\ q.url.scheme \in {"http", "https"}
                     /\ q.url.host /= <<>>
                     /\ allowed = <<>> \/ HostAllowed(q.url.host, allowed)
           /\ q.pc = "done" => q.resp.code = 400

\* two records that differ in nothing but the name of their image
SameRecord(a, b) ==
    /\ a.status = b.status
    /\ a.error_message = b.error_message
    /\ a.s3_path = NoUrl <=> b.s3_path = NoUrl

\* C33: with the same outcomes of the Renderer, the Publisher and the
\* database, run_sync_generation and a worker execution of
\* generate_screenshot_task make the same status updates, one after the
\* other, to their records (processing, then completed with the image URL
\* or failed with the truncated error), also when the record is missing
\* when it should be marked processing.
C33_SameTransitions ==
    /\ DOMAIN records \in {{}, {1, 2}}
    /\ DOMAIN records = {1, 2}
          => /\ SameRecord(records[1], records[2])
             /\ records[1].s3_path \in {NoUrl, S3Url(1)}
             /\ records[2].s3_path \in {NoUrl, S3Url(2)}
             /\ records[1].error_message.len <= MaxErrorLen

\* a request with force_refresh that has passed the validation of its URL
Forced(q) ==
    /\ q.pc /= "idle"
    /\ q.force
    /\ validate_domain(q.url, allowed)

\* the steps of a request with force_refresh, and of the worker, leave every
\* record but the request's own and, until the image is there, the cache as
\* they are; the request adds one record, when it creates its own
ForcedFrame ==
    /\ \A r \in ReqIds :
          (reqs'[r] /= reqs[r] /\ reqs'[r].force)
          => /\ \A id \in DOMAIN records :
                   id /= reqs'[r].new_id => records'[id] = records[id]
             /\ Len(records') =
                   IF reqs[r].pc = "create" /\ reqs'[r].pc = "dispatch"
                   THEN Len(records) + 1 ELSE Len(records)
             /\ cache' /= cache
                   => /\ reqs[r].pc \in {"cacheupd", "query"}
                      /\ records[reqs[r].new_id].status = "completed"
                      /\ \A k \in CacheKeys :
                            k /= KeyOf(reqs[r]) => cache'[k] = cache[k]
             /\ reqs[r].new_id /= NoRecord
                   => reqs'[r].new_id = reqs[r].new_id
    /\ (jobs' /= jobs /\ reqs' = reqs)
          => /\ cache' = cache
             /\ Len(records') = Len(records)
             /\ \A id \in DOMAIN records :
                   records'[id] /= records[id] => jobs[id].record_id = id

\* the generation for the record of q was handed over: to the queue, or to
\* run_sync_generation, which has marked the record
GenerationDispatched(q) ==
    IF celeryEnabled THEN jobs[q.new_id].record_id = q.new_id
    ELSE records[q.new_id].status /= "pending"

\* the answers of q come from its own record
OwnAnswer(q) ==
    /\ q.poll_id \in {NoRecord, q.new_id}
    /\ q.resp.kind \in {"cached", "redirect"}
          => q.resp.image_url = S3Url(q.new_id)
    /\ q.resp.kind = "processing" => q.resp.task_id = q.new_id

RenderedAt(id, width, height) ==
    \E r \in ReqIds :
        /\ reqs[r].new_id = id
        /\ reqs[r].width = width
        /\ reqs[r].height = height

\* C35: every cache entry under the key of (url, width, height) holds the
\* image URL of a record generated for that url at that width and height,
\* and no request is answered with an image rendered at another size than
\* the one it asks for.
C35_FingerprintIntegrity ==
    /\ \A u \in Urls, w \in SizeWidths, h \in Heights :
          cache[CacheKey(u, w, h)] /= NoEntry
          => \E id \in DOMAIN records :
                 /\ cache[CacheKey(u, w, h)].value.s3_url = S3Url(id)
                 /\ records[id].url = u
                 /\ RenderedAt(id, w, h)
    /\ \A r \in ReqIds :
          (reqs[r].pc = "done" /\ reqs[r].resp.kind \in {"cached", "redirect"})
          => \E id \in DOMAIN records :
                 /\ reqs[r].resp.image_url = S3Url(id)
                 /\ records[id].url = reqs[r].url
                 /\ RenderedAt(id, reqs[r].width, reqs[r].height)

\* the completed records of the url that have not expired at t
CompletedRecords(recs, url, t) ==
    { id \in DOMAIN recs :
        /\ recs[id].url = url
        /\ recs[id].status = "completed"
        /\ t < recs[id].expires_at }

\* C36: a request without force_refresh that is answered from the cache is
\* given the image URL of the most recently created completed, unexpired
\* record of its URL; so after a generation with force_refresh has
\* completed, no request is given the older record's image from a cache
\* entry written before.
C36_CacheFollowsRefresh ==
    [][\A r \in ReqIds :
          (/\ reqs[r].pc = "idle"
           /\ reqs'[r].pc = "done"
           /\ ~reqs'[r].force
           /\ reqs'[r].resp.kind \in {"cached", "redirect"})
          => LET done == CompletedRecords(records, reqs'[r].url, now)
                 last == CHOOSE id \in done : \A j \in done : j <= id
             IN
             /\ done /= {}
             /\ reqs'[r].resp.image_url = records[last].s3_path]_vars
====
